---- MODULE Spec2Model ----
(***************************************************************************)
(* Model of src/main.py: MagicFormulaBacktest.                             *)
(*                                                                         *)
(* The program is a one-way pipeline                                       *)
(*   main -> load_data -> _process_empresas_data -> _process_ibov_data     *)
(*        -> analyze                                                       *)
(* over two CSV files.  A pandas DataFrame is a sequence of records (one   *)
(* record per row, one field per column, field idx = the row label); a     *)
(* float64 is an exact rational <<num, den>> with den > 0 in lowest terms, *)
(* and NaN is <<0, 0>>.  Rounding of binary floating point is not          *)
(* modelled.                                                               *)
(***************************************************************************)
EXTENDS Integers, Sequences, FiniteSets, TLC

VARIABLES
    empresas_file,              \* dados_empresas.csv: [exists, rows]
    ibov_file,                  \* ibov.csv: [exists, rows] (column fechamento)
    pc,                         \* position of main() in the pipeline
    dados_empresas,             \* self.dados_empresas
    rentabilidades_carteiras,   \* self.rentabilidades_carteiras
    err                         \* the exception main() caught, or "none"

vars == <<empresas_file, ibov_file, pc, dados_empresas, rentabilidades_carteiras, err>>

-----------------------------------------------------------------------------
(* float64 as exact rationals *)

NaN == <<0, 0>>

IsNaN(x) == x[2] = 0

Abs(n) == IF n < 0 THEN -n ELSE n

RECURSIVE GCD(_, _)
GCD(a, b) == IF b = 0 THEN a ELSE GCD(b, a % b)

Norm(n, d) ==
    IF d = 0 THEN NaN
    ELSE LET s == IF d < 0 THEN -1 ELSE 1
             g == GCD(Abs(n), Abs(d))
         IN  <<(s * n) \div g, (s * d) \div g>>

F(n) == <<n, 1>>

FAdd(x, y) == IF IsNaN(x) \/ IsNaN(y) THEN NaN
              ELSE Norm(x[1] * y[2] + y[1] * x[2], x[2] * y[2])

FSub(x, y) == IF IsNaN(x) \/ IsNaN(y) THEN NaN
              ELSE Norm(x[1] * y[2] - y[1] * x[2], x[2] * y[2])

FMul(x, y) == IF IsNaN(x) \/ IsNaN(y) THEN NaN
              ELSE Norm(x[1] * y[1], x[2] * y[2])

\* Division; the model's prices are positive, so no division by zero occurs.
FDiv(x, y) == IF IsNaN(x) \/ IsNaN(y) \/ y[1] = 0 THEN NaN
              ELSE Norm(x[1] * y[2], x[2] * y[1])

\* Comparisons with NaN are False, as in IEEE 754.
FLt(x, y) == ~IsNaN(x) /\ ~IsNaN(y) /\ x[1] * y[2] < y[1] * x[2]
FLe(x, y) == ~IsNaN(x) /\ ~IsNaN(y) /\ x[1] * y[2] <= y[1] * x[2]
FGt(x, y) == FLt(y, x)

-----------------------------------------------------------------------------
(* Program constants *)

LIQUIDITY_THRESHOLD == 1000000
PORTFOLIO_SIZE == 10

-----------------------------------------------------------------------------
(* pandas primitives, on the sequence-of-records frame *)

Positions(df) == 1..Len(df)

\* pd.read_csv: rows in file order under a RangeIndex 0..n-1.
read_csv(rows) == [i \in 1..Len(rows) |-> rows[i] @@ [idx |-> i - 1]]

\* df[mask]: the rows whose position satisfies keep, in order, labels kept.
RECURSIVE boolean_mask(_, _)
boolean_mask(df, keep) ==
    IF df = <<>> THEN <<>>
    ELSE LET n == Len(df)
             init == boolean_mask(SubSeq(df, 1, n - 1), keep)
         IN  IF keep[n] THEN Append(init, df[n]) ELSE init

\* groupby("ticker")[col].pct_change(): within each ticker, in ROW ORDER,
\* value / previous value - 1; NaN on the ticker's first row.
groupby_pct_change(df) ==
    [i \in Positions(df) |->
        LET prev == {j \in Positions(df) : j < i /\ df[j].ticker = df[i].ticker}
        IN  IF prev = {} THEN NaN
            ELSE LET j == CHOOSE k \in prev : \A m \in prev : m <= k
                 IN  FSub(FDiv(F(df[i].preco_fechamento_ajustado),
                               F(df[j].preco_fechamento_ajustado)), F(1))]

\* groupby("ticker")[col].shift(-1): within each ticker, in ROW ORDER, the
\* value of the ticker's next row; NaN on the ticker's last row.
groupby_shift_back(df, col) ==
    [i \in Positions(df) |->
        LET next == {j \in Positions(df) : j > i /\ df[j].ticker = df[i].ticker}
        IN  IF next = {} THEN NaN
            ELSE col[CHOOSE k \in next : \A m \in next : k <= m]]

\* Mutant of groupby_rank: method="min", ties take their first position.
groupby_rank_min(df, col, ascending) ==
    [i \in Positions(df) |->
        IF IsNaN(col[i]) THEN NaN
        ELSE LET group  == {j \in Positions(df) :
                               df[j].data = df[i].data /\ ~IsNaN(col[j])}
                 before == {j \in group : IF ascending THEN FLt(col[j], col[i])
                                                       ELSE FGt(col[j], col[i])}
             IN  F(Cardinality(before) + 1)]

\* groupby("data")[col].rank(ascending=..): method="average", na_option="keep".
\* Within the rows of the same date with a non-NaN value, sorted in the given
\* direction, a value occupies positions first..last; its rank is their mean.
groupby_rank(df, col, ascending) ==
    [i \in Positions(df) |->
        IF IsNaN(col[i]) THEN NaN
        ELSE LET group  == {j \in Positions(df) :
                               df[j].data = df[i].data /\ ~IsNaN(col[j])}
                 before == {j \in group : IF ascending THEN FLt(col[j], col[i])
                                                       ELSE FGt(col[j], col[i])}
                 upto   == {j \in group : IF ascending THEN FLe(col[j], col[i])
                                                       ELSE FLe(col[i], col[j])}
                 first  == Cardinality(before) + 1
                 last   == Cardinality(upto)
             IN  Norm(first + last, 2)]

\* Sorted sequence of a finite set of integers (groupby sorts its keys).
RECURSIVE SortedSeq(_)
SortedSeq(S) ==
    IF S = {} THEN <<>>
    ELSE LET m == CHOOSE x \in S : \A y \in S : x <= y
         IN  <<m>> \o SortedSeq(S \ {m})

\* Sum and count of the non-NaN entries of a sequence of floats.
RECURSIVE nansum(_)
nansum(s) ==
    IF s = <<>> THEN F(0)
    ELSE LET n == Len(s)
             init == nansum(SubSeq(s, 1, n - 1))
         IN  IF IsNaN(s[n]) THEN init ELSE FAdd(init, s[n])

RECURSIVE count(_)
count(s) ==
    IF s = <<>> THEN 0
    ELSE count(SubSeq(s, 1, Len(s) - 1)) + (IF IsNaN(s[Len(s)]) THEN 0 ELSE 1)

\* Series.mean(): skipna=True; NaN when nothing is left.
mean(s) == IF count(s) = 0 THEN NaN ELSE FDiv(nansum(s), F(count(s)))


\* Mutant of cumprod_minus_1: the returns are added, not compounded.
RECURSIVE running_sum(_, _)
running_sum(s, n) ==
    IF n = 0 THEN F(0)
    ELSE LET init == running_sum(s, n - 1)
         IN  IF IsNaN(s[n]) THEN init ELSE FAdd(init, s[n])

cumsum_returns(s) ==
    [i \in 1..Len(s) |-> IF IsNaN(s[i]) THEN NaN ELSE running_sum(s, i)]

\* (1 + s).cumprod() - 1: cumprod has skipna=True, so a NaN entry stays NaN in
\* the result and is skipped by the running product of the later entries.
RECURSIVE running_prod(_, _)
running_prod(s, n) ==
    IF n = 0 THEN F(1)
    ELSE LET init == running_prod(s, n - 1)
         IN  IF IsNaN(s[n]) THEN init ELSE FMul(init, FAdd(s[n], F(1)))

cumprod_minus_1(s) ==
    [i \in 1..Len(s) |->
        IF IsNaN(s[i]) THEN NaN ELSE FSub(running_prod(s, i), F(1))]

\* df.assign of one column: the new value replaces an existing column.
with_column(df, name, col) ==
    [i \in Positions(df) |-> (name :> col[i]) @@ df[i]]

column(df, name) == [i \in Positions(df) |-> df[i][name]]

-----------------------------------------------------------------------------
(* _process_empresas_data, line by line *)

\* Mutant of forward_returns: pct_change and shift over the whole frame, without
\* the groupby("ticker").
forward_returns_ungrouped(df) ==
    with_column(df, "retorno_mensal",
        [i \in Positions(df) |->
            IF i = Len(df) THEN NaN
            ELSE FSub(FDiv(F(df[i + 1].preco_fechamento_ajustado),
                           F(df[i].preco_fechamento_ajustado)), F(1))])

\* lines 42-43: retorno_mensal = per-ticker pct_change, shifted back one row.
forward_returns(df) ==
    LET pct == groupby_pct_change(df)
    IN  with_column(df, "retorno_mensal", groupby_shift_back(df, pct))

\* Mutant of filter_liquidity: >= in place of >.
filter_liquidity_inclusive(df) ==
    boolean_mask(df, [i \in Positions(df) |->
                         df[i].volume_negociado >= LIQUIDITY_THRESHOLD])

\* line 45: keep volume_negociado > 1_000_000.
filter_liquidity(df) ==
    boolean_mask(df, [i \in Positions(df) |->
                         df[i].volume_negociado > LIQUIDITY_THRESHOLD])

\* Mutant of rank_factors: ascending ranks (the lowest raw value ranks first).
rank_factors_ascending(df) ==
    LET a == with_column(df, "ranking_ebit_ev",
                         groupby_rank(df, column(df, "ebit_ev"), TRUE))
    IN  with_column(a, "ranking_roic",
                    groupby_rank(a, column(a, "roic"), TRUE))

\* lines 47-48: per-date descending average ranks of the two factors.
rank_factors(df) ==
    LET a == with_column(df, "ranking_ebit_ev",
                         groupby_rank(df, column(df, "ebit_ev"), FALSE))
    IN  with_column(a, "ranking_roic",
                    groupby_rank(a, column(a, "roic"), FALSE))

\* lines 50-51: the sum of the two ranks, re-ranked ascending per date.
final_rank(df) ==
    LET sum == [i \in Positions(df) |->
                   FAdd(df[i].ranking_ebit_ev, df[i].ranking_roic)]
        a   == with_column(df, "ranking_final", sum)
    IN  with_column(a, "ranking_final",
                    groupby_rank(a, column(a, "ranking_final"), TRUE))

\* Mutant of select_top: < in place of <=.
select_top_strict(df) ==
    boolean_mask(df, [i \in Positions(df) |->
                         FLt(df[i].ranking_final, F(PORTFOLIO_SIZE))])

\* line 53: keep ranking_final <= 10 (False for NaN).
select_top(df) ==
    boolean_mask(df, [i \in Positions(df) |->
                         FLe(df[i].ranking_final, F(PORTFOLIO_SIZE))])

-----------------------------------------------------------------------------
(* _process_ibov_data *)

\* line 60: ibov_data["fechamento"].pct_change().dropna()
ibov_pct_change(closes) ==
    [k \in 1..(IF Len(closes) = 0 THEN 0 ELSE Len(closes) - 1) |->
        FSub(FDiv(F(closes[k + 1]), F(closes[k])), F(1))]

\* line 63: groupby("data")["retorno_mensal"].mean().to_frame(): one row per
\* date of the selected panel, dates ascending.
groupby_mean(df) ==
    LET keys == SortedSeq({df[i].data : i \in Positions(df)})
    IN  [k \in 1..Len(keys) |->
            LET rows == boolean_mask(df, [i \in Positions(df) |->
                                             df[i].data = keys[k]])
            IN  [index |-> [kind |-> "data", v |-> keys[k]],
                 retorno_mensal |-> mean(column(rows, "retorno_mensal"))]]

\* line 65: shift(1).dropna(): every column moves down one row under the same
\* index; rows left with a NaN are dropped.
shift_dropna(tab) ==
    LET shifted == [t \in Positions(tab) |->
                      [index |-> tab[t].index,
                       retorno_mensal |-> IF t = 1 THEN NaN
                                          ELSE tab[t - 1].retorno_mensal,
                       magic_formula  |-> IF t = 1 THEN NaN
                                          ELSE tab[t - 1].magic_formula]]
    IN  boolean_mask(shifted, [t \in Positions(tab) |->
                                  /\ ~IsNaN(shifted[t].retorno_mensal)
                                  /\ ~IsNaN(shifted[t].magic_formula)])

\* line 66: DataFrame.__setitem__ with an ndarray.  A frame with an empty
\* index takes its index from a non-empty value (DataFrame._ensure_valid_index:
\* the frame is reindexed to RangeIndex(len(value)), existing columns NaN);
\* otherwise the lengths must match or ValueError is raised.
set_ibovespa(tab, values) ==
    IF Len(tab) = 0 /\ Len(values) > 0
    THEN [raised |-> FALSE,
          frame  |-> [k \in 1..Len(values) |->
                         [index |-> [kind |-> "range", v |-> k - 1],
                          retorno_mensal |-> NaN,
                          magic_formula  |-> NaN,
                          ibovespa       |-> values[k]]]]
    ELSE IF Len(tab) # Len(values)
    THEN [raised |-> TRUE, frame |-> tab]
    ELSE [raised |-> FALSE,
          frame  |-> with_column(tab, "ibovespa", values)]

\* line 67: drop("retorno_mensal", axis=1)
drop_retorno_mensal(tab) ==
    [t \in Positions(tab) |->
        [c \in DOMAIN tab[t] \ {"retorno_mensal"} |-> tab[t][c]]]

\* lines 63-65
portfolio_series(df) ==
    LET m == groupby_mean(df)
    IN  shift_dropna(with_column(m, "magic_formula",
                                 cumprod_minus_1(column(m, "retorno_mensal"))))

\* lines 60-61
retorno_acum_ibov(closes) == cumprod_minus_1(ibov_pct_change(closes))

\* line 75: pd.to_datetime(index): a date label becomes the timestamp of that
\* date, an integer label a timestamp that many nanoseconds after the epoch.
to_datetime(tab) ==
    [t \in Positions(tab) |->
        [tab[t] EXCEPT !.index =
            [kind |-> IF @.kind = "data" THEN "timestamp" ELSE "epoch_ns",
             v |-> @.v]]]

-----------------------------------------------------------------------------
(* Actions: main() runs the steps in program order *)

\* load_data, line 31-32: a missing file raises FileNotFoundError, which
\* main() catches and prints.
load_data_not_found ==
    /\ pc = "load_data"
    /\ ~empresas_file.exists \/ ~ibov_file.exists
    /\ err' = "FileNotFoundError"
    /\ pc' = "done"
    /\ UNCHANGED <<empresas_file, ibov_file, dados_empresas, rentabilidades_carteiras>>

\* load_data, line 34
load_data_read_csv ==
    /\ pc = "load_data"
    /\ empresas_file.exists /\ ibov_file.exists
    /\ dados_empresas' = read_csv(empresas_file.rows)
    /\ pc' = "forward_returns"
    /\ UNCHANGED <<empresas_file, ibov_file, rentabilidades_carteiras, err>>

process_empresas_forward_returns ==
    /\ pc = "forward_returns"
    /\ dados_empresas' = forward_returns(dados_empresas)
    /\ pc' = "filter_liquidity"
    /\ UNCHANGED <<empresas_file, ibov_file, rentabilidades_carteiras, err>>

process_empresas_filter_liquidity ==
    /\ pc = "filter_liquidity"
    /\ dados_empresas' = filter_liquidity(dados_empresas)
    /\ pc' = "rank_factors"
    /\ UNCHANGED <<empresas_file, ibov_file, rentabilidades_carteiras, err>>

process_empresas_rank_factors ==
    /\ pc = "rank_factors"
    /\ dados_empresas' = rank_factors(dados_empresas)
    /\ pc' = "final_rank"
    /\ UNCHANGED <<empresas_file, ibov_file, rentabilidades_carteiras, err>>

process_empresas_final_rank ==
    /\ pc = "final_rank"
    /\ dados_empresas' = final_rank(dados_empresas)
    /\ pc' = "select"
    /\ UNCHANGED <<empresas_file, ibov_file, rentabilidades_carteiras, err>>

process_empresas_select ==
    /\ pc = "select"
    /\ dados_empresas' = select_top(dados_empresas)
    /\ pc' = "process_ibov"
    /\ UNCHANGED <<empresas_file, ibov_file, rentabilidades_carteiras, err>>

\* _process_ibov_data, lines 59-67, the column assignment succeeding
process_ibov_data ==
    /\ pc = "process_ibov"
    /\ LET r == set_ibovespa(portfolio_series(dados_empresas),
                             retorno_acum_ibov(ibov_file.rows))
       IN  /\ ~r.raised
           /\ rentabilidades_carteiras' = drop_retorno_mensal(r.frame)
    /\ pc' = "analyze"
    /\ UNCHANGED <<empresas_file, ibov_file, dados_empresas, err>>

\* _process_ibov_data, lines 59-66, the column assignment raising ValueError:
\* self.rentabilidades_carteiras keeps the frame of line 65 and main() catches
\* and prints the exception.
process_ibov_data_raises ==
    /\ pc = "process_ibov"
    /\ LET r == set_ibovespa(portfolio_series(dados_empresas),
                             retorno_acum_ibov(ibov_file.rows))
       IN  /\ r.raised
           /\ rentabilidades_carteiras' = r.frame
    /\ err' = "ValueError"
    /\ pc' = "done"
    /\ UNCHANGED <<empresas_file, ibov_file, dados_empresas>>

\* analyze, line 75 (the plotting of _plot_results reads the table and is not
\* part of the state)
analyze ==
    /\ pc = "analyze"
    /\ rentabilidades_carteiras' = to_datetime(rentabilidades_carteiras)
    /\ pc' = "done"
    /\ UNCHANGED <<empresas_file, ibov_file, dados_empresas, err>>

Next ==
    \/ load_data_not_found
    \/ load_data_read_csv
    \/ process_empresas_forward_returns
    \/ process_empresas_filter_liquidity
    \/ process_empresas_rank_factors
    \/ process_empresas_final_rank
    \/ process_empresas_select
    \/ process_ibov_data
    \/ process_ibov_data_raises
    \/ analyze

-----------------------------------------------------------------------------
(* Inputs *)

MaxRows == 4          \* rows of dados_empresas.csv (pipeline and return panels)
MaxPeriods == 3       \* dates of those panels; also the longest ibov.csv
MaxRankRows == 3      \* free rows of a ranking panel
MaxRankPeriods == 2   \* dates of a ranking panel

Liquid == LIQUIDITY_THRESHOLD + 1
Illiquid == LIQUIDITY_THRESHOLD
Prices == {100, 110}

Row(t, d, p, v, e, r) ==
    [ticker |-> t, data |-> d, preco_fechamento_ajustado |-> p,
     volume_negociado |-> v, ebit_ev |-> e, roic |-> r]

SeqsUpTo(S, n) == UNION {[1..k -> S] : k \in 1..n}

\* One row per (ticker, data).
UniqueKeys(rows) ==
    \A i, j \in 1..Len(rows) :
        (rows[i].ticker = rows[j].ticker /\ rows[i].data = rows[j].data) => i = j

DateOrdered(rows) ==
    \A i, j \in 1..Len(rows) : i < j => rows[i].data <= rows[j].data

\* Panels of the pipeline specification: at most MaxRows rows, one per chosen
\* (date, ticker), sorted by date and ticker, both factors present.  Ticker A
\* is liquid and its price is 100 or 110; ticker B has a flat price and is
\* liquid or not.
PipelineKeys == 1..(2 * MaxPeriods)

PipelineRow(k, alt) ==
    IF k % 2 = 1
    THEN Row("A", (k + 1) \div 2, IF alt THEN 110 ELSE 100, Liquid, F(10), F(10))
    ELSE Row("B", (k + 1) \div 2, 100, IF alt THEN Illiquid ELSE Liquid, F(10), F(10))

PipelinePanels ==
    UNION {{[n \in 1..Cardinality(K) |->
                PipelineRow(SortedSeq(K)[n], alt[SortedSeq(K)[n]])] :
              alt \in [K -> BOOLEAN]} :
           K \in {S \in SUBSET PipelineKeys :
                     Cardinality(S) >= 1 /\ Cardinality(S) <= MaxRows}}

\* Panels of the forward-return specification: liquid rows of two tickers in
\* ANY row order, prices varying.
ReturnRows ==
    {Row(t, d, p, Liquid, F(10), F(10)) :
        t \in {"A", "B"}, d \in 1..MaxPeriods, p \in Prices}

ReturnPanels ==
    {rows \in SeqsUpTo(ReturnRows, MaxRows - 1) : UniqueKeys(rows)}

\* Panels of the ranking specification.  A free row is a date and a cell
\* (volume, ebit_ev, roic); its ticker is the position it has among the rows of
\* its date, so a ticker recurs across dates.  Optionally fewer than
\* MaxRankRows free rows follow PORTFOLIO_SIZE liquid rows of date 1 with
\* factors 10, 20, .., so that a date holds more candidates than the portfolio
\* takes.
RankCells ==
    {<<Liquid, F(10), F(10)>>, <<Liquid, F(10), F(20)>>, <<Liquid, F(20), F(10)>>,
     <<Liquid, NaN, F(20)>>, <<Liquid, F(10), NaN>>, <<Illiquid, F(20), F(20)>>}

RankTickers == <<"A", "B", "C", "D", "E", "G", "H">>

RankFree ==
    {f \in SeqsUpTo((1..MaxRankPeriods) \X RankCells, MaxRankRows) :
        \A i, j \in 1..Len(f) : i < j => f[i][1] <= f[j][1]}

RankFreeRows(f) ==
    [i \in 1..Len(f) |->
        LET d == f[i][1]
            k == Cardinality({j \in 1..i : f[j][1] = d})
        IN  Row(RankTickers[k], d, 90 + 10 * d, f[i][2][1], f[i][2][2], f[i][2][3])]

CrowdTickers ==
    <<"F01", "F02", "F03", "F04", "F05", "F06", "F07", "F08", "F09", "F10">>

Crowd ==
    [i \in 1..PORTFOLIO_SIZE |->
        Row(CrowdTickers[i], 1, 100, Liquid, F(10 * i), F(10 * i))]

RankPanels ==
    {RankFreeRows(f) : f \in RankFree}
    \cup {Crowd \o RankFreeRows(f) : f \in {g \in RankFree : Len(g) < MaxRankRows}}

\* ibov.csv: closing prices, the first one 100.
IbovSeries ==
    {c \in UNION {[1..k -> Prices] : k \in 0..MaxPeriods} :
        Len(c) > 0 => c[1] = 100}

FlatIbov == {<<100, 100>>, <<100, 100, 100>>}

InitOf(Panels, Ibovs) ==
    /\ \/ /\ empresas_file \in {[exists |-> TRUE, rows |-> rows] : rows \in Panels}
          /\ ibov_file \in {[exists |-> TRUE, rows |-> c] : c \in Ibovs}
       \/ /\ empresas_file = [exists |-> FALSE, rows |-> <<>>]
          /\ ibov_file \in {[exists |-> TRUE, rows |-> c] : c \in Ibovs}
                             \cup {[exists |-> FALSE, rows |-> <<>>]}
    /\ pc = "load_data"
    /\ dados_empresas = "None"
    /\ rentabilidades_carteiras = "None"
    /\ err = "none"

Init == InitOf(PipelinePanels, IbovSeries)
InitReturns == InitOf(ReturnPanels, FlatIbov)
InitRank == InitOf(RankPanels, FlatIbov)

Spec == Init /\ [][Next]_vars
SpecReturns == InitReturns /\ [][Next]_vars
SpecRank == InitRank /\ [][Next]_vars

-----------------------------------------------------------------------------
(* Reference definitions for the properties, stated on the input panel *)

Panel == empresas_file.rows
PanelPos == 1..Len(Panel)

IsLiquidRow(r) == r.volume_negociado > 1000000
LiquidOnly(rows) == SelectSeq(rows, IsLiquidRow)

Observations(t) == {i \in PanelPos : Panel[i].ticker = t}

\* price(next period of the ticker, by date) / price(this period) - 1
TrueForwardReturn(i) ==
    LET later == {j \in Observations(Panel[i].ticker) : Panel[j].data > Panel[i].data}
    IN  IF later = {} THEN NaN
        ELSE LET n == CHOOSE j \in later : \A m \in later : Panel[j].data <= Panel[m].data
             IN  FSub(FDiv(F(Panel[n].preco_fechamento_ajustado),
                           F(Panel[i].preco_fechamento_ajustado)), F(1))

\* Fractional rank: one more than the number of better values, plus half the
\* number of other equal values.
FractionalRank(better, equal) == Norm(2 * better + equal + 1, 2)

LiquidPeers(i) ==
    {j \in PanelPos : IsLiquidRow(Panel[j]) /\ Panel[j].data = Panel[i].data}

ExpectedRankEbit(i) ==
    IF IsNaN(Panel[i].ebit_ev) THEN NaN
    ELSE FractionalRank(
            Cardinality({j \in LiquidPeers(i) : FGt(Panel[j].ebit_ev, Panel[i].ebit_ev)}),
            Cardinality({j \in LiquidPeers(i) : Panel[j].ebit_ev = Panel[i].ebit_ev}))

ExpectedRankRoic(i) ==
    IF IsNaN(Panel[i].roic) THEN NaN
    ELSE FractionalRank(
            Cardinality({j \in LiquidPeers(i) : FGt(Panel[j].roic, Panel[i].roic)}),
            Cardinality({j \in LiquidPeers(i) : Panel[j].roic = Panel[i].roic}))

ExpectedSum(i) == FAdd(ExpectedRankEbit(i), ExpectedRankRoic(i))

\* The expected final rank of every input row, as one sequence.
ExpectedFinalRanks ==
    LET sums == <<>> \o [i \in PanelPos |-> ExpectedSum(i)]
    IN  <<>> \o [i \in PanelPos |->
            IF IsNaN(sums[i]) THEN NaN
            ELSE FractionalRank(
                    Cardinality({j \in LiquidPeers(i) : FLt(sums[j], sums[i])}),
                    Cardinality({j \in LiquidPeers(i) : sums[j] = sums[i]}))]

Candidate(i) ==
    /\ IsLiquidRow(Panel[i])
    /\ ~IsNaN(Panel[i].ebit_ev)
    /\ ~IsNaN(Panel[i].roic)

\* Positions of the input rows that are in self.dados_empresas (by row label).
Kept == {i \in PanelPos : \E k \in 1..Len(dados_empresas) : dados_empresas[k].idx = i - 1}

AfterSelect == pc = "process_ibov"
TableProduced == pc \in {"analyze", "done"} /\ err = "none"

-----------------------------------------------------------------------------
(* Properties *)

\* C1: after compute_forward_returns, whatever the row order of the panel, the
\* forward return of a ticker's row at period T is price(the ticker's next
\* period by date) / price(T) - 1, and it is missing on the row of the ticker's
\* last period by date.
C1_ForwardReturnByDate ==
    pc = "filter_liquidity" =>
        \A k \in 1..Len(dados_empresas) :
            dados_empresas[k].retorno_mensal
                = TrueForwardReturn(dados_empresas[k].idx + 1)

RankColumns(df) ==
    [k \in 1..Len(df) |->
        <<df[k].ticker, df[k].data, df[k].ranking_ebit_ev, df[k].ranking_roic,
          df[k].ranking_final>>]

\* C3: liquidity filtering precedes ranking.  The ranks of the liquid rows are
\* those computed on the panel with the rows of volume <= 1,000,000 removed,
\* so is the selection, and no illiquid row is ranked or selected.
C3_LiquidityBeforeRanking ==
    LET ref == final_rank(rank_factors(read_csv(LiquidOnly(Panel))))
    IN  /\ pc = "select" =>
              /\ RankColumns(dados_empresas) = RankColumns(ref)
              /\ \A k \in 1..Len(dados_empresas) : IsLiquidRow(dados_empresas[k])
        /\ AfterSelect =>
              /\ RankColumns(dados_empresas) = RankColumns(select_top(ref))
              /\ \A k \in 1..Len(dados_empresas) : IsLiquidRow(dados_empresas[k])

\* C3 witness: ranks were computed for a date that also has an illiquid row
\* whose factor value beats a liquid row's.
C3_Witness ==
    /\ pc = "select"
    /\ \E i, j \in PanelPos :
          /\ Panel[i].data = Panel[j].data
          /\ ~IsLiquidRow(Panel[i]) /\ IsLiquidRow(Panel[j])
          /\ FGt(Panel[i].ebit_ev, Panel[j].ebit_ev)
          /\ FGt(Panel[i].roic, Panel[j].roic)

\* The rows of df dated d.
OfDate(df, d) == {k \in 1..Len(df) : df[k].data = d}

\* The two factor ranks of the rows of a frame, keyed by row label.
FactorRanks(df) ==
    [k \in 1..Len(df) |-> <<df[k].idx, df[k].ranking_ebit_ev, df[k].ranking_roic>>]

\* C4: within each period, among the liquid rows with a defined factor value,
\* the highest raw value ranks first, equal values share the mean of the
\* positions they occupy, and the rank depends on the rows of that period only
\* (ranking the rows of the period alone gives the same ranks).
C4_RankPerPeriod ==
    pc = "final_rank" =>
        LET df == dados_empresas
        IN  /\ \A k \in 1..Len(df) :
                  LET peers == OfDate(df, df[k].data)
                  IN  /\ df[k].ranking_ebit_ev =
                            IF IsNaN(df[k].ebit_ev) THEN NaN
                            ELSE FractionalRank(
                                    Cardinality({j \in peers :
                                        FGt(df[j].ebit_ev, df[k].ebit_ev)}),
                                    Cardinality({j \in peers :
                                        df[j].ebit_ev = df[k].ebit_ev}))
                      /\ df[k].ranking_roic =
                            IF IsNaN(df[k].roic) THEN NaN
                            ELSE FractionalRank(
                                    Cardinality({j \in peers :
                                        FGt(df[j].roic, df[k].roic)}),
                                    Cardinality({j \in peers :
                                        df[j].roic = df[k].roic}))
                      /\ (/\ ~IsNaN(df[k].roic)
                          /\ \A j \in peers \ {k} :
                                IsNaN(df[j].roic) \/ FLt(df[j].roic, df[k].roic))
                            => df[k].ranking_roic = F(1)
            /\ \A d \in {df[k].data : k \in 1..Len(df)} :
                  LET period == boolean_mask(df, [j \in 1..Len(df) |-> df[j].data = d])
                  IN  FactorRanks(rank_factors(period)) = FactorRanks(period)

\* C4 witness: two rows of one date tie on a factor below a third row, and
\* another date has rows too.
C4_Witness ==
    /\ pc = "final_rank"
    /\ \E a, b, c, o \in 1..Len(dados_empresas) :
          LET df == dados_empresas
          IN  /\ a # b
              /\ df[a].data = df[b].data /\ df[a].data = df[c].data
              /\ df[o].data # df[a].data
              /\ df[a].ebit_ev = df[b].ebit_ev
              /\ FGt(df[c].ebit_ev, df[a].ebit_ev)
              /\ ~IsNaN(df[o].ebit_ev)

\* The rows of date d are three, with values 10, 10 and 20 in column col.
TenTenTwenty(df, col, d) ==
    /\ Cardinality(OfDate(df, d)) = 3
    /\ Cardinality({k \in OfDate(df, d) : df[k][col] = F(10)}) = 2
    /\ Cardinality({k \in OfDate(df, d) : df[k][col] = F(20)}) = 1

\* In every date whose three rows hold 10, 10, 20 the tens rank tied and the
\* twenty ranks single.
TenTenTwentyRanks(tied, single) ==
    pc = "final_rank" =>
        \A d \in 1..MaxRankPeriods :
            LET df == dados_empresas
            IN  /\ TenTenTwenty(df, "ebit_ev", d) =>
                      \A k \in OfDate(df, d) :
                          df[k].ranking_ebit_ev =
                              IF df[k].ebit_ev = F(10) THEN tied ELSE single
                /\ TenTenTwenty(df, "roic", d) =>
                      \A k \in OfDate(df, d) :
                          df[k].ranking_roic =
                              IF df[k].roic = F(10) THEN tied ELSE single

\* C5 as stated: for a period whose three liquid rows have factor values 10,
\* 10 and 20, the tied rows rank 1.5 each and the row with 20 ranks 3.
C5_TiedTensRankOneAndHalf == TenTenTwentyRanks(Norm(3, 2), F(3))

\* C5 as amended: the row with 20 ranks 1 and the tied rows with 10 rank 2.5
\* each.
C5_TiedTensRankTwoAndHalf == TenTenTwentyRanks(Norm(5, 2), F(1))

\* C5 witness: a ranked date with exactly three liquid rows of values 10, 10, 20.
C5_Witness ==
    /\ pc = "final_rank"
    /\ \E d \in 1..MaxRankPeriods :
          /\ TenTenTwenty(dados_empresas, "ebit_ev", d)
          /\ \E e \in 1..MaxRankPeriods : TenTenTwenty(dados_empresas, "roic", e)

\* C6: the selected panel is exactly the liquid rows with both factor values
\* whose final rank (ascending fractional rank of the sum of the two factor
\* ranks within the period) is <= 10; a row with a missing factor is never
\* selected; a period with fewer than 10 candidates selects them all.
C6_SelectedPanel ==
    AfterSelect =>
        LET final == ExpectedFinalRanks
            kept  == Kept
        IN  /\ kept = {i \in PanelPos : Candidate(i) /\ FLe(final[i], F(10))}
            /\ \A k \in 1..Len(dados_empresas) :
                  /\ dados_empresas[k].ranking_final = final[dados_empresas[k].idx + 1]
                  /\ ~IsNaN(dados_empresas[k].ebit_ev)
                  /\ ~IsNaN(dados_empresas[k].roic)
            /\ \A i \in PanelPos :
                  (/\ Candidate(i)
                   /\ Cardinality({j \in LiquidPeers(i) : Candidate(j)}) < 10)
                      => i \in kept

\* C6 witness: a candidate ranked past 10 was left out, one ranked exactly 10
\* was selected, and a liquid row with a missing factor was left out.
C6_Witness ==
    /\ AfterSelect
    /\ \E i \in PanelPos \ Kept : Candidate(i)
    /\ \E k \in 1..Len(dados_empresas) : dados_empresas[k].ranking_final = F(10)
    /\ \E i \in PanelPos \ Kept : IsLiquidRow(Panel[i]) /\ IsNaN(Panel[i].ebit_ev)

\* The periods of the panel, ascending.
Periods == SortedSeq({Panel[i].data : i \in PanelPos})

RECURSIVE SumOver(_, _)
SumOver(S, f) ==
    IF S = {} THEN F(0)
    ELSE LET x == CHOOSE y \in S : TRUE
         IN  FAdd(f[x], SumOver(S \ {x}, f))

\* Equal-weighted mean of the defined forward returns of the selected rows of
\* date d.
PeriodReturn(d) ==
    LET S == {i \in Kept : Panel[i].data = d /\ ~IsNaN(TrueForwardReturn(i))}
    IN  IF S = {} THEN NaN
        ELSE FDiv(SumOver(S, [i \in S |-> TrueForwardReturn(i)]), F(Cardinality(S)))

\* (1 + r_1) * ... * (1 + r_n)
RECURSIVE Growth(_)
Growth(n) ==
    IF n = 0 THEN F(1)
    ELSE FMul(Growth(n - 1), FAdd(F(1), PeriodReturn(Periods[n])))

\* The case of C7: a date-ordered panel and a benchmark over the same N >= 2
\* periods, every period with a selected row, every period but the last with a
\* defined mean forward return.
C7_Case ==
    /\ pc \in {"analyze", "done"}
    /\ err # "FileNotFoundError"
    /\ DateOrdered(Panel)
    /\ Len(Periods) >= 2
    /\ Len(ibov_file.rows) = Len(Periods)
    /\ \A t \in 1..Len(Periods) : \E i \in Kept : Panel[i].data = Periods[t]
    /\ \A t \in 1..(Len(Periods) - 1) : ~IsNaN(PeriodReturn(Periods[t]))

\* C7: in that case the comparison table has N-1 rows dated p2..pN ascending,
\* and the row dated p_t holds the strategy's (1+r_1)*...*(1+r_(t-1)) - 1 and the
\* benchmark's close(p_t) / close(p_1) - 1.
C7_ComparisonTable ==
    C7_Case =>
        LET tab == rentabilidades_carteiras
            N   == Len(Periods)
        IN  /\ err = "none"
            /\ Len(tab) = N - 1
            /\ \A t \in 2..N :
                  /\ DOMAIN tab[t - 1] = {"index", "magic_formula", "ibovespa"}
                  /\ tab[t - 1].index.kind = (IF pc = "analyze" THEN "data" ELSE "timestamp")
                  /\ tab[t - 1].index.v = Periods[t]
                  /\ tab[t - 1].magic_formula = FSub(Growth(t - 1), F(1))
                  /\ tab[t - 1].ibovespa =
                        FSub(FDiv(F(ibov_file.rows[t]), F(ibov_file.rows[1])), F(1))

\* C7 witness: a finished run over three periods whose two table rows differ
\* in both columns.
C7_Witness ==
    /\ C7_Case
    /\ pc = "done"
    /\ Len(Periods) = 3
    /\ rentabilidades_carteiras[1].magic_formula # rentabilidades_carteiras[2].magic_formula
    /\ rentabilidades_carteiras[1].magic_formula # F(0)
    /\ rentabilidades_carteiras[1].ibovespa # rentabilidades_carteiras[2].ibovespa

\* C8: a period whose selected rows all miss their forward return has a missing
\* mean, and the missing value propagates: no cumulative return of a later
\* period is computed as though that period had returned 0.  So a table row
\* with a strategy value is preceded only by periods with a defined mean.
C8_MissingMeanPropagates ==
    TableProduced =>
        \A t \in 1..Len(rentabilidades_carteiras) :
            LET row == rentabilidades_carteiras[t]
            IN  (row.index.kind \in {"data", "timestamp"} /\ ~IsNaN(row.magic_formula))
                    => \A i \in Kept :
                          Panel[i].data < row.index.v
                              => \E k \in 1..Len(dados_empresas) :
                                    /\ dados_empresas[k].data = Panel[i].data
                                    /\ ~IsNaN(dados_empresas[k].retorno_mensal)

\* C9: a comparison table is produced only when the shifted portfolio series
\* and the benchmark's cumulative returns have the same number of rows; the
\* table is never padded or truncated to fit.
C9_LengthMismatchIsFatal ==
    TableProduced =>
        /\ Len(portfolio_series(dados_empresas)) = Len(retorno_acum_ibov(ibov_file.rows))
        /\ Len(rentabilidades_carteiras) = Len(portfolio_series(dados_empresas))

\* C10: with an empty selected panel the pipeline ends in an error that is not
\* the length-mismatch error, and load_data never returns a table.
C10_EmptySelectionIsError ==
    (/\ pc \in {"analyze", "done"}
     /\ err # "FileNotFoundError"
     /\ Len(dados_empresas) = 0)
        => /\ pc = "done"
           /\ err \notin {"none", "ValueError"}

====
